---- MODULE Spec2Model ----
(***************************************************************************)
(* A model of dent's command-line driver (src/src/bin.rs) and of its       *)
(* least-squares fit (src/src/lr.rs).                                      *)
(*                                                                         *)
(* Three specifications share the module's variables:                      *)
(*   SpecLR    LinearRegression::new applied to bounded paired samples;    *)
(*   SpecRead  read_data applied to bounded sequences of input lines;      *)
(*   SpecMain  one run of main, statement by statement, with its output.   *)
(*                                                                         *)
(* f64 is modelled as a binary floating-point format with round-to-nearest *)
(* ties-to-even, the IEEE special values NaN and +/-Infinity, an unbounded *)
(* exponent and a significand of Precision bits (f64 has 53; TLC's         *)
(* integers are 32 bits wide).  The sign of zero is not modelled: no       *)
(* operation of simple_lr distinguishes -0.0 from 0.0 (a zero denominator  *)
(* there always meets a zero numerator).                                   *)
(***************************************************************************)
EXTENDS Integers, Sequences, FiniteSets, TLC

VARIABLES
    lr_pc,       \* SpecLR: "call" before LinearRegression::new, "ret" after
    lr_data,     \* SpecLR: the slice of (x, y) pairs handed to new
    lr_result,   \* SpecLR: the Result<LinearRegression, Error> returned
    rd_pc,       \* SpecRead: "call" before read_data, "ret" after
    rd_lines,    \* SpecRead: the items reader.lines() yields
    rd_lax,      \* SpecRead: lax_parsing
    rd_result,   \* SpecRead: the Vec<f64> returned, or the panic
    pc,          \* SpecMain: the statement main is at
    args,        \* SpecMain: the command line as clap matched it
    term,        \* SpecMain: term_size::dimensions(), width only
    width,       \* SpecMain: the local `width`
    alpha,       \* SpecMain: the local `alpha`
    opened,      \* SpecMain: the content of each input read so far
    summaries,   \* SpecMain: the Summary values built so far
    t_test,      \* SpecMain: the TTest computed, or NoValue
    output,      \* SpecMain: what has been printed to stdout, in order
    failure      \* SpecMain: why the run aborted, or NoValue

vars == <<lr_pc, lr_data, lr_result, rd_pc, rd_lines, rd_lax, rd_result,
          pc, args, term, width, alpha, opened, summaries, t_test, output,
          failure>>

lrVars == <<lr_pc, lr_data, lr_result>>
rdVars == <<rd_pc, rd_lines, rd_lax, rd_result>>
mainVars == <<pc, args, term, width, alpha, opened, summaries, t_test,
              output, failure>>

NoValue == [none |-> TRUE]

\* Option<T>
NoneStr == [some |-> FALSE, v |-> ""]
NoneText == [some |-> FALSE, v |-> <<>>]
NoneInt == [some |-> FALSE, v |-> 0]
Some(x) == [some |-> TRUE, v |-> x]

(***************************************************************************)
(* Bounds of the model.                                                    *)
(***************************************************************************)
\* bits in the significand of the modelled f64
Precision == 9
\* the x and y of a pair are the integers 0..MaxVal
MaxVal == 3
\* a paired sample holds at most MaxPairs pairs
MaxPairs == 2
\* read_data is given at most MaxLines lines
MaxLines == 3
\* main is given at most MaxFiles file arguments
MaxFiles == 3

(***************************************************************************)
(* f64 arithmetic.                                                         *)
(* A finite value is m * 2^e with m odd, or m = 0 and e = 0.               *)
(***************************************************************************)
NaN == [k |-> "nan", m |-> 0, e |-> 0]
Inf(s) == [k |-> "inf", m |-> s, e |-> 0]
IsNaN(a) == a.k = "nan"
IsInf(a) == a.k = "inf"
IsFinite(a) == a.k = "fin"

Abs(n) == IF n < 0 THEN -n ELSE n
Sgn(n) == IF n < 0 THEN -1 ELSE IF n > 0 THEN 1 ELSE 0
Min(a, b) == IF a <= b THEN a ELSE b

RECURSIVE BitLen(_)
BitLen(n) == IF n = 0 THEN 0 ELSE 1 + BitLen(n \div 2)

RECURSIVE Normalize(_, _)
Normalize(m, e) ==
    IF m = 0 THEN [k |-> "fin", m |-> 0, e |-> 0]
    ELSE IF m % 2 = 0 THEN Normalize(m \div 2, e + 1)
    ELSE [k |-> "fin", m |-> m, e |-> e]

\* The f64 nearest to sg * x * 2^ex, ties to even, where x = n when sticky
\* is FALSE and n < x < n + 1 when it is TRUE (n then has more than
\* Precision bits).
RoundBits(sg, n, sticky, ex) ==
    IF BitLen(n) <= Precision THEN Normalize(sg * n, ex)
    ELSE LET sh == BitLen(n) - Precision
             q == n \div (2 ^ sh)
             rem == n % (2 ^ sh)
             half == 2 ^ (sh - 1)
             up == \/ rem > half
                   \/ rem = half /\ (sticky \/ q % 2 = 1)
         IN Normalize(sg * (IF up THEN q + 1 ELSE q), ex + sh)

FromInt(i) == RoundBits(IF i < 0 THEN -1 ELSE 1, Abs(i), FALSE, 0)

FSign(a) == IF IsFinite(a) THEN Sgn(a.m) ELSE a.m

FNeg(a) == IF IsNaN(a) THEN NaN
           ELSE IF IsInf(a) THEN Inf(-a.m)
           ELSE [a EXCEPT !.m = -a.m]

FAdd(a, b) ==
    IF IsNaN(a) \/ IsNaN(b) THEN NaN
    ELSE IF IsInf(a) /\ IsInf(b) THEN (IF a.m = b.m THEN a ELSE NaN)
    ELSE IF IsInf(a) THEN a
    ELSE IF IsInf(b) THEN b
    ELSE LET e == Min(a.e, b.e)
             n == a.m * 2 ^ (a.e - e) + b.m * 2 ^ (b.e - e)
         IN RoundBits(IF n < 0 THEN -1 ELSE 1, Abs(n), FALSE, e)

FSub(a, b) == FAdd(a, FNeg(b))

FMul(a, b) ==
    IF IsNaN(a) \/ IsNaN(b) THEN NaN
    ELSE IF IsInf(a) \/ IsInf(b)
         THEN (IF FSign(a) * FSign(b) = 0 THEN NaN
               ELSE Inf(FSign(a) * FSign(b)))
    ELSE LET n == a.m * b.m
         IN RoundBits(IF n < 0 THEN -1 ELSE 1, Abs(n), FALSE, a.e + b.e)

\* the least k with num * 2^k >= den * 2^(Precision + 1)
RECURSIVE QuotShift(_, _)
QuotShift(num, den) ==
    IF num >= den * 2 ^ (Precision + 1) THEN 0
    ELSE 1 + QuotShift(2 * num, den)

FDiv(a, b) ==
    IF IsNaN(a) \/ IsNaN(b) THEN NaN
    ELSE IF IsInf(a)
         THEN (IF IsInf(b) THEN NaN
               ELSE Inf(a.m * (IF FSign(b) < 0 THEN -1 ELSE 1)))
    ELSE IF IsInf(b) THEN Normalize(0, 0)
    ELSE IF b.m = 0
         THEN (IF a.m = 0 THEN NaN ELSE Inf(Sgn(a.m)))
    ELSE IF a.m = 0 THEN Normalize(0, 0)
    ELSE LET k == QuotShift(Abs(a.m), Abs(b.m))
             num == Abs(a.m) * 2 ^ k
             den == Abs(b.m)
         IN RoundBits(Sgn(a.m) * Sgn(b.m), num \div den, num % den # 0,
                      a.e - b.e - k)

\* the largest r with r * r <= n, for lo * lo <= n < hi * hi
RECURSIVE ISqrt(_, _, _)
ISqrt(n, lo, hi) ==
    IF hi - lo <= 1 THEN lo
    ELSE LET mid == (lo + hi) \div 2
         IN IF mid * mid <= n THEN ISqrt(n, mid, hi) ELSE ISqrt(n, lo, mid)

\* the least j with m * 4^j >= 2^(2 * Precision + 2)
RECURSIVE RootShift(_)
RootShift(m) ==
    IF m >= 2 ^ (2 * Precision + 2) THEN 0 ELSE 1 + RootShift(4 * m)

FSqrt(a) ==
    IF IsNaN(a) THEN NaN
    ELSE IF IsInf(a) THEN (IF a.m > 0 THEN a ELSE NaN)
    ELSE IF a.m < 0 THEN NaN
    ELSE IF a.m = 0 THEN a
    ELSE LET m0 == IF a.e % 2 = 0 THEN a.m ELSE 2 * a.m
             e0 == IF a.e % 2 = 0 THEN a.e ELSE a.e - 1
             j == RootShift(m0)
             m1 == m0 * 4 ^ j
             r == ISqrt(m1, 0, 2 ^ (Precision + 3))
         IN RoundBits(1, r, r * r # m1, (e0 \div 2) - j)

\* a < b and a <= b on f64: FALSE whenever an operand is NaN
FLt(a, b) ==
    IF IsNaN(a) \/ IsNaN(b) THEN FALSE
    ELSE IF IsInf(a) THEN a.m < 0 /\ ~(IsInf(b) /\ b.m < 0)
    ELSE IF IsInf(b) THEN b.m > 0
    ELSE LET e == Min(a.e, b.e)
         IN a.m * 2 ^ (a.e - e) < b.m * 2 ^ (b.e - e)

FEq(a, b) == ~IsNaN(a) /\ ~IsNaN(b) /\ a = b
FLe(a, b) == FLt(a, b) \/ FEq(a, b)
FAbs(a) == IF FSign(a) < 0 THEN FNeg(a) ELSE a

Zero == FromInt(0)
One == FromInt(1)

(***************************************************************************)
(* Result<T, Error>                                                        *)
(***************************************************************************)
Ok(v) == [ok |-> TRUE, val |-> v]
Err(e) == [ok |-> FALSE, err |-> e]

\* iter.sum::<f64>(): a left fold with +, from 0.0
RECURSIVE FSumFrom(_, _)
FSumFrom(acc, s) ==
    IF s = <<>> THEN acc ELSE FSumFrom(FAdd(acc, Head(s)), Tail(s))

FSum(s) == FSumFrom(Zero, s)

(***************************************************************************)
(* summary::Summarizer, as far as simple_lr uses it: the mean and the     *)
(* Bessel-corrected standard deviation, the division by size - 1          *)
(* performed unconditionally.                                              *)
(***************************************************************************)
Summarizer_mean(sample) == FDiv(FSum(sample), FromInt(Len(sample)))

Summarizer_standard_deviation(sample) ==
    LET mean == Summarizer_mean(sample)
        sq == [i \in 1..Len(sample) |->
                  FMul(FSub(sample[i], mean), FSub(sample[i], mean))]
    IN FSqrt(FDiv(FSum(sq), FSub(FromInt(Len(sample)), One)))

Summarizer_new(sample) ==
    IF sample = <<>> THEN Err("EmptySample")
    ELSE Ok([size |-> Len(sample),
             mean |-> Summarizer_mean(sample),
             standard_deviation |-> Summarizer_standard_deviation(sample)])

(***************************************************************************)
(* LinearRegression                                                        *)
(***************************************************************************)
\* data.iter().cloned().unzip()
UnzipX(data) == [i \in 1..Len(data) |-> data[i][1]]
UnzipY(data) == [i \in 1..Len(data) |-> data[i][2]]

\* r_num / r_den
lr_r(x, y, n, mean_x, mean_y, std_x, std_y) ==
    LET r_num == FSum([i \in 1..Len(x) |->
                          FMul(FSub(x[i], mean_x), FSub(y[i], mean_y))])
        r_den == FMul(FMul(FSub(n, One), std_x), std_y)
    IN FDiv(r_num, r_den)

\* the slope with the ratio of the deviations inverted
lr_slope_swapped(r, std_x, std_y) == FMul(r, FDiv(std_x, std_y))

lr_slope(r, std_x, std_y) == FMul(r, FDiv(std_y, std_x))

\* the intercept with the product added
lr_intercept_plus(mean_x, mean_y, slope) == FAdd(mean_y, FMul(slope, mean_x))

lr_intercept(mean_x, mean_y, slope) == FSub(mean_y, FMul(slope, mean_x))

lr_standard_error(n, r, slope) ==
    LET df == FSub(n, FromInt(2))
    IN FMul(FDiv(slope, FSqrt(df)),
            FSqrt(FSub(FDiv(One, FMul(r, r)), One)))

simple_lr(data) ==
    LET n == FromInt(Len(data))
        x == UnzipX(data)
        y == UnzipY(data)
        summ_x == Summarizer_new(x)
        summ_y == Summarizer_new(y)
    IN IF ~summ_x.ok THEN summ_x
       ELSE IF ~summ_y.ok THEN summ_y
       ELSE LET mean_x == summ_x.val.mean
                mean_y == summ_y.val.mean
                std_x == summ_x.val.standard_deviation
                std_y == summ_y.val.standard_deviation
                r == lr_r(x, y, n, mean_x, mean_y, std_x, std_y)
                slope == lr_slope(r, std_x, std_y)
                intercept == lr_intercept(mean_x, mean_y, slope)
                standard_error == lr_standard_error(n, r, slope)
            IN Ok([intercept |-> intercept, r |-> r, slope |-> slope,
                   standard_error |-> standard_error])

\* new with its early return yielding a zeroed model instead of the error
LinearRegression_new_default(data) ==
    IF data = <<>>
    THEN Ok([intercept |-> Zero, r |-> Zero, slope |-> Zero,
             standard_error |-> Zero])
    ELSE simple_lr(data)

LinearRegression_new(data) ==
    IF data = <<>> THEN Err("EmptySample") ELSE simple_lr(data)

(***************************************************************************)
(* SpecLR: LinearRegression::new on every paired sample of at most         *)
(* MaxPairs pairs with coordinates in 0..MaxVal, and on two samples of     *)
(* three pairs.                                                            *)
(***************************************************************************)
Pair(a, b) == <<FromInt(a), FromInt(b)>>

\* spec.md section 8, concrete scenario 4
Scenario4 == <<Pair(1, 2), Pair(2, 4), Pair(3, 6)>>

\* three collinear points, two of them equal
Collinear3 == <<Pair(0, 0), Pair(0, 0), Pair(3, 3)>>

Coords == {FromInt(i) : i \in 0..MaxVal}

Samples ==
    UNION {[1..len -> Coords \X Coords] : len \in 0..MaxPairs}
        \cup {Scenario4, Collinear3}

MainIdle ==
    /\ pc = "idle" /\ args = NoValue /\ term = NoneInt /\ width = NoneInt
    /\ alpha = NoneStr /\ opened = <<>> /\ summaries = <<>>
    /\ t_test = NoValue /\ output = <<>> /\ failure = NoneStr

ReadIdle ==
    /\ rd_pc = "idle" /\ rd_lines = <<>> /\ rd_lax = FALSE
    /\ rd_result = NoValue

LRIdle == lr_pc = "idle" /\ lr_data = <<>> /\ lr_result = NoValue

InitLR ==
    /\ lr_pc = "call"
    /\ lr_data \in Samples
    /\ lr_result = NoValue
    /\ ReadIdle
    /\ MainIdle

Fit ==
    /\ lr_pc = "call"
    /\ lr_result' = LinearRegression_new(lr_data)
    /\ lr_pc' = "ret"
    /\ UNCHANGED <<lr_data, rdVars, mainVars>>

NextLR == Fit

SpecLR == InitLR /\ [][NextLR]_vars

\* the standard deviations of the x and y sequences of the fitted sample
StdX == Summarizer_standard_deviation(UnzipX(lr_data))
StdY == Summarizer_standard_deviation(UnzipY(lr_data))

Fitted == lr_pc = "ret" /\ lr_result.ok
NonDegenerate == FLt(Zero, StdX) /\ FLt(Zero, StdY)

\* |a - b| <= 2^(3 - Precision) * max(|a|, |b|), for finite a and b
Close(a, b) ==
    /\ IsFinite(a) /\ IsFinite(b)
    /\ LET e == Min(a.e, b.e)
           am == a.m * 2 ^ (a.e - e)
           bm == b.m * 2 ^ (b.e - e)
           big == IF Abs(am) >= Abs(bm) THEN Abs(am) ELSE Abs(bm)
       IN Abs(am - bm) * 2 ^ (Precision - 3) <= big

\* C1: LinearRegression::new on an empty slice returns Err(EmptySample), and
\* no model (intercept, slope, r, standard_error) is produced.
C1_EmptySample ==
    (lr_pc = "ret" /\ lr_data = <<>>)
        => /\ ~lr_result.ok
           /\ lr_result = Err("EmptySample")

C1_Witness == lr_pc = "ret" /\ lr_data = <<>> /\ ~lr_result.ok

C8_RBounded ==
    (Fitted /\ NonDegenerate)
        => /\ FLe(FNeg(One), lr_result.val.r)
           /\ FLe(lr_result.val.r, One)

\* C9 as stated: scenario 4 yields slope 2, intercept 0, r 1 and an
\* undefined standard error (not a finite number).
C9_Scenario4Undefined ==
    (lr_pc = "ret" /\ lr_data = Scenario4)
        => /\ lr_result.ok
           /\ lr_result.val.slope = FromInt(2)
           /\ lr_result.val.intercept = Zero
           /\ lr_result.val.r = One
           /\ ~IsFinite(lr_result.val.standard_error)

\* C9 as amended: scenario 4 yields slope 2, intercept 0, r 1 and a
\* standard error of exactly 0 (df = 1, sqrt(1/r^2 - 1) = 0).
C9_Scenario4 ==
    (lr_pc = "ret" /\ lr_data = Scenario4)
        => /\ lr_result.ok
           /\ lr_result.val.slope = FromInt(2)
           /\ lr_result.val.intercept = Zero
           /\ lr_result.val.r = One
           /\ lr_result.val.standard_error = Zero

C9_Witness == lr_pc = "ret" /\ lr_data = Scenario4 /\ lr_result.ok

(***************************************************************************)
(* Text: a string is a sequence of one-character strings.                  *)
(***************************************************************************)
DigitVal(c) ==
    CASE c = "0" -> 0 [] c = "1" -> 1 [] c = "2" -> 2 [] c = "3" -> 3
      [] c = "4" -> 4 [] c = "5" -> 5 [] c = "6" -> 6 [] c = "7" -> 7
      [] c = "8" -> 8 [] c = "9" -> 9 [] OTHER -> -1

IsDigit(c) == DigitVal(c) >= 0
IsSpace(c) == c \in {" ", "\t"}

\* the value of a non-empty string of decimal digits, most significant first
RECURSIVE DigitsValue(_, _)
DigitsValue(acc, s) ==
    IF s = <<>> THEN acc
    ELSE DigitsValue(10 * acc + DigitVal(Head(s)), Tail(s))

AllDigits(s) == s # <<>> /\ \A i \in 1..Len(s) : IsDigit(s[i])

\* str::trim
RECURSIVE TrimStart(_)
TrimStart(s) ==
    IF s # <<>> /\ IsSpace(Head(s)) THEN TrimStart(Tail(s)) ELSE s

RECURSIVE TrimEnd(_)
TrimEnd(s) ==
    IF s # <<>> /\ IsSpace(s[Len(s)])
    THEN TrimEnd(SubSeq(s, 1, Len(s) - 1))
    ELSE s

Trim(s) == TrimEnd(TrimStart(s))

\* str::parse::<usize>: an optional "+", then decimal digits
ParseUsize(s) ==
    LET body == IF s # <<>> /\ Head(s) = "+" THEN Tail(s) ELSE s
    IN IF AllDigits(body) THEN Ok(DigitsValue(0, body))
       ELSE Err("ParseIntError")

\* str::parse::<f64>, for the integer literals: an optional sign, then
\* decimal digits, rounded to the nearest f64
ParseF64(s) ==
    LET signed == s # <<>> /\ Head(s) \in {"+", "-"}
        body == IF signed THEN Tail(s) ELSE s
        v == DigitsValue(0, body)
    IN IF AllDigits(body)
       THEN Ok(FromInt(IF signed /\ Head(s) = "-" THEN -v ELSE v))
       ELSE Err("ParseFloatError")

(***************************************************************************)
(* read_data.  An item of reader.lines() is a line, or an io::Error.       *)
(***************************************************************************)
Line(text) == [err |-> FALSE, text |-> text]
ReadError == [err |-> TRUE, text |-> <<>>]

\* the loop of read_data with the blank test made before the trim
RECURSIVE read_loop_untrimmed(_, _, _)
read_loop_untrimmed(lines, lax_parsing, data) ==
    IF lines = <<>> THEN Ok(data)
    ELSE LET l == Head(lines)
             s == Trim(l.text)
             d == ParseF64(s)
         IN IF l.err THEN Err("io::Error")
            ELSE IF l.text = <<>>
                 THEN read_loop_untrimmed(Tail(lines), lax_parsing, data)
            ELSE IF d.ok
                 THEN read_loop_untrimmed(Tail(lines), lax_parsing,
                                          Append(data, d.val))
            ELSE IF ~lax_parsing THEN Err(d.err)
            ELSE read_loop_untrimmed(Tail(lines), lax_parsing, data)

read_data_untrimmed(lines, lax_parsing) ==
    read_loop_untrimmed(lines, lax_parsing, <<>>)

\* the for loop of read_data: Ok(data) on return, Err on a panic
RECURSIVE read_loop(_, _, _)
read_loop(lines, lax_parsing, data) ==
    IF lines = <<>> THEN Ok(data)
    ELSE LET l == Head(lines)
             s == Trim(l.text)
             d == ParseF64(s)
         IN IF l.err THEN Err("io::Error")
            ELSE IF s = <<>>
                 THEN read_loop(Tail(lines), lax_parsing, data)
            ELSE IF d.ok
                 THEN read_loop(Tail(lines), lax_parsing, Append(data, d.val))
            ELSE IF ~lax_parsing THEN Err(d.err)
            ELSE read_loop(Tail(lines), lax_parsing, data)

read_data(lines, lax_parsing) == read_loop(lines, lax_parsing, <<>>)

(***************************************************************************)
(* SpecRead: read_data on every sequence of at most MaxLines items.        *)
(***************************************************************************)
LineSamples ==
    { <<>>, <<" ">>, <<"1">>, <<" ", "2", "\t">>, <<"-", "3">>, <<"1", "2">>,
      <<"x">>, <<"1", " ", "2">>, <<"-">> }

Items == {Line(t) : t \in LineSamples} \cup {ReadError}

InitRead ==
    /\ rd_pc = "call"
    /\ rd_lines \in UNION {[1..len -> Items] : len \in 0..MaxLines}
    /\ rd_lax \in BOOLEAN
    /\ rd_result = NoValue
    /\ LRIdle
    /\ MainIdle

ReadData ==
    /\ rd_pc = "call"
    /\ rd_result' = read_data(rd_lines, rd_lax)
    /\ rd_pc' = "ret"
    /\ UNCHANGED <<rd_lines, rd_lax, lrVars, mainVars>>

NextRead == ReadData

SpecRead == InitRead /\ [][NextRead]_vars

\* a line that is non-blank after trimming
NonBlank(l) == Trim(l.text) # <<>>
\* a non-blank line that parses as a number; one that does not
Numeric(l) == NonBlank(l) /\ ParseF64(Trim(l.text)).ok
Malformed(l) == NonBlank(l) /\ ~ParseF64(Trim(l.text)).ok

\* the parsed values of the numeric lines, in input order
NumericValues(lines) ==
    LET kept == SelectSeq(lines, Numeric)
    IN [i \in 1..Len(kept) |-> ParseF64(Trim(kept[i].text)).val]

AllRead(lines) == \A i \in 1..Len(lines) : ~lines[i].err

\* C2: read_data returns, in input order, exactly the parsed value of each
\* line that is non-blank after trimming and parses as a number; blank lines
\* are skipped in both modes; in lax mode malformed lines are discarded and
\* the read succeeds; in strict mode a malformed line fails the whole read
\* and no data is returned.  (Input lines are the items that were read: an
\* io::Error item is no line.)
C2_ReadData ==
    (rd_pc = "ret" /\ AllRead(rd_lines))
        => LET malformed == \E i \in 1..Len(rd_lines) : Malformed(rd_lines[i])
           IN /\ (rd_lax \/ ~malformed)
                     => /\ rd_result.ok
                        /\ rd_result.val = NumericValues(rd_lines)
              /\ (~rd_lax /\ malformed)
                     => /\ ~rd_result.ok
                        /\ rd_result = Err("ParseFloatError")

\* lax mode, with a blank, a malformed and two numeric lines
C2_Witness ==
    /\ rd_pc = "ret" /\ AllRead(rd_lines) /\ rd_lax
    /\ \E i \in 1..Len(rd_lines) : Malformed(rd_lines[i])
    /\ \E i \in 1..Len(rd_lines) : ~NonBlank(rd_lines[i]) /\ rd_lines[i].text # <<>>
    /\ rd_result.ok /\ Len(rd_result.val) = 1

(***************************************************************************)
(* The collaborators of main outside bin.rs: Summary, welch_t_test and the *)
(* boxplot renderer.                                                       *)
(***************************************************************************)
RECURSIVE FMinFrom(_, _)
FMinFrom(acc, s) ==
    IF s = <<>> THEN acc
    ELSE FMinFrom(IF FLt(Head(s), acc) THEN Head(s) ELSE acc, Tail(s))

RECURSIVE FMaxFrom(_, _)
FMaxFrom(acc, s) ==
    IF s = <<>> THEN acc
    ELSE FMaxFrom(IF FLt(acc, Head(s)) THEN Head(s) ELSE acc, Tail(s))

\* Summary::new: EmptySample on an empty sample, else the statistics (those
\* of them that identify the sample: size, min, max, mean)
Summary_new(data) ==
    IF data = <<>> THEN Err("EmptySample")
    ELSE Ok([size |-> Len(data),
             min |-> FMinFrom(Head(data), Tail(data)),
             max |-> FMaxFrom(Head(data), Tail(data)),
             mean |-> Summarizer_mean(data)])

\* welch_t_test: a pure function of sample A, sample B and the level; the
\* TTest is kept as its arguments
welch_t_test(s1, s2, sig) == [a |-> s1, b |-> s2, alpha |-> sig]

\* a renderer that takes any width
render_any_width(ss, w, ascii, border) ==
    Ok([of |-> ss, width |-> w, ascii |-> ascii, border |-> border])

\* the renderer rejects a width below 1, else yields the rendered block
render(ss, w, ascii, border) ==
    IF w < 1 THEN Err("InvalidWidth")
    ELSE Ok([of |-> ss, width |-> w, ascii |-> ascii, border |-> border])

summary_plot(summary, w, ascii) == render(<<summary>>, w, ascii, FALSE)

comparison_plot(ss, w, ascii, border) == render(ss, w, ascii, border)

(***************************************************************************)
(* bin.rs                                                                  *)
(***************************************************************************)
\* parse_alpha with ".01" mapped to the variant of ".1"
parse_alpha_merged(arg) ==
    CASE arg = ".001" -> Ok("Alpha001")
      [] arg = ".005" -> Ok("Alpha005")
      [] arg = ".01" -> Ok("Alpha100")
      [] arg = ".025" -> Ok("Alpha025")
      [] arg = ".05" -> Ok("Alpha050")
      [] arg = ".1" -> Ok("Alpha100")
      [] OTHER -> Err("panic at parse_alpha")

\* parse_alpha: Ok(level), or Err on panic!()
parse_alpha(arg) ==
    CASE arg = ".001" -> Ok("Alpha001")
      [] arg = ".005" -> Ok("Alpha005")
      [] arg = ".01" -> Ok("Alpha010")
      [] arg = ".025" -> Ok("Alpha025")
      [] arg = ".05" -> Ok("Alpha050")
      [] arg = ".1" -> Ok("Alpha100")
      [] OTHER -> Err("panic at parse_alpha")

\* a file of the file system, or one that cannot be opened
File(lines) == [exists |-> TRUE, lines |-> lines]
NoFile == [exists |-> FALSE, lines |-> <<>>]

\* summarize_file that falls back to a default Summary on an empty sample
summarize_file_lenient(file, lax_parsing) ==
    IF ~file.exists THEN Err("io::Error at File::open")
    ELSE LET data == read_data(file.lines, lax_parsing)
         IN IF ~data.ok THEN data
            ELSE IF data.val = <<>> THEN Summary_new(<<Zero>>)
            ELSE Summary_new(data.val)

\* summarize_file: Ok(summary), or Err on the panic of an unwrap
summarize_file(file, lax_parsing) ==
    IF ~file.exists THEN Err("io::Error at File::open")
    ELSE LET data == read_data(file.lines, lax_parsing)
         IN IF ~data.ok THEN data ELSE Summary_new(data.val)

\* summarize_stdin
summarize_stdin(stdin, lax_parsing) ==
    LET data == read_data(stdin.lines, lax_parsing)
    IN IF ~data.ok THEN data ELSE Summary_new(data.val)

\* let width = matches.value_of("width").and_then(parse).or(term).unwrap_or(80)
resolve_width(arg, dimensions) ==
    IF arg.some /\ ParseUsize(arg.v).ok THEN ParseUsize(arg.v).val
    ELSE IF dimensions.some THEN dimensions.v
    ELSE 80

\* the match on files.len() with the t-test arm taken for two or more files
after_summaries_two_or_more(n) == IF n >= 2 THEN "t_test" ELSE "display"

\* match files.len(): where main goes once every file is summarized
after_summaries(n) == IF n = 2 THEN "t_test" ELSE "display"

(***************************************************************************)
(* SpecMain: one run of main.                                              *)
(***************************************************************************)
AcceptedAlpha == {".001", ".005", ".01", ".025", ".05", ".1"}
AlphaArgs == AcceptedAlpha \cup {"0.05", ".5", "5"}

WidthArgs == { <<"0">>, <<"4", "0">>, <<"x">> }
TermWidths == {0, 100}

FileSamples ==
    { NoFile,
      File(<<>>),
      File(<<Line(<<"1">>), Line(<<>>), Line(<<" ", "2", "\t">>)>>),
      File(<<Line(<<"x">>), Line(<<"-", "3">>)>>),
      File(<<Line(<<"x">>)>>) }

StdinSamples == FileSamples \ {NoFile}

ArgSets ==
    [stdin : BOOLEAN, plot : BOOLEAN, lax : BOOLEAN, ascii : BOOLEAN,
     alpha : {NoneStr} \cup {Some(a) : a \in AlphaArgs},
     width : {NoneText} \cup {Some(w) : w \in WidthArgs},
     nfiles : 0..MaxFiles]

\* --alpha has default_value(".05")
AlphaArg == IF args.alpha.some THEN args.alpha.v ELSE ".05"

\* the number of inputs the run reads
NInputs == IF args.stdin THEN 1 ELSE args.nfiles

Input(src, idx, content) == [src |-> src, idx |-> idx, content |-> content]

Out(kind, val) == [kind |-> kind, val |-> val]
Blank == Out("blank", NoValue)

InitMain ==
    /\ pc = "start"
    /\ args \in ArgSets
    /\ term \in {NoneInt} \cup {Some(w) : w \in TermWidths}
    /\ width = NoneInt
    /\ alpha = NoneStr
    /\ opened = <<>>
    /\ summaries = <<>>
    /\ t_test = NoValue
    /\ output = <<>>
    /\ failure = NoneStr
    /\ LRIdle
    /\ ReadIdle

Abort(why) ==
    /\ pc' = "aborted"
    /\ failure' = Some(why)

\* App::new(..).get_matches() and the locals of main
GetMatches ==
    /\ pc = "start"
    /\ IF ~args.stdin /\ args.nfiles = 0
       THEN /\ Abort("clap: FILES is required unless --stdin")
            /\ UNCHANGED width
       ELSE /\ width' = Some(resolve_width(args.width, term))
            /\ pc' = "matched"
            /\ UNCHANGED failure
    /\ UNCHANGED <<args, term, alpha, opened, summaries, t_test, output,
                   lrVars, rdVars>>

\* let s = summarize_stdin(lax_parsing)
SummarizeStdin ==
    /\ pc = "matched"
    /\ args.stdin
    /\ \E stdin \in StdinSamples :
          LET s == summarize_stdin(stdin, args.lax)
          IN /\ opened' = Append(opened, Input("stdin", 0, stdin))
             /\ IF s.ok
                THEN /\ summaries' = <<s.val>>
                     /\ pc' = "display"
                     /\ UNCHANGED failure
                ELSE /\ Abort(s.err)
                     /\ UNCHANGED summaries
    /\ UNCHANGED <<args, term, width, alpha, t_test, output, lrVars, rdVars>>

\* let alpha = parse_alpha(matches.value_of("alpha").unwrap())
ParseAlpha ==
    /\ pc = "matched"
    /\ ~args.stdin
    /\ LET a == parse_alpha(AlphaArg)
       IN IF a.ok
          THEN /\ alpha' = Some(a.val)
               /\ pc' = "summarize"
               /\ UNCHANGED failure
          ELSE /\ Abort(a.err)
               /\ UNCHANGED alpha
    /\ UNCHANGED <<args, term, width, opened, summaries, t_test, output,
                   lrVars, rdVars>>

\* summarize_file(files[i], lax_parsing), for the next file argument
SummarizeFile ==
    /\ pc = "summarize"
    /\ Len(summaries) < args.nfiles
    /\ \E file \in FileSamples :
          LET s == summarize_file(file, args.lax)
          IN /\ opened' = Append(opened, Input("file", Len(summaries) + 1, file))
             /\ IF s.ok
                THEN /\ summaries' = Append(summaries, s.val)
                     /\ pc' = IF Len(summaries) + 1 = args.nfiles
                              THEN after_summaries(args.nfiles)
                              ELSE "summarize"
                     /\ UNCHANGED failure
                ELSE /\ Abort(s.err)
                     /\ UNCHANGED summaries
    /\ UNCHANGED <<args, term, width, alpha, t_test, output, lrVars, rdVars>>

\* let t_test = welch_t_test(&s1, &s2, alpha)
WelchTTest ==
    /\ pc = "t_test"
    /\ t_test' = welch_t_test(summaries[1], summaries[2], alpha.v)
    /\ pc' = "display"
    /\ UNCHANGED <<args, term, width, alpha, opened, summaries, output,
                   failure, lrVars, rdVars>>

\* the plot of the run: summary_plot in display_summary, comparison_plot in
\* t_test_files and in the arm for three or more files
Plot ==
    IF args.stdin \/ args.nfiles = 1
    THEN summary_plot(summaries[1], width.v, args.ascii)
    ELSE comparison_plot(summaries, width.v, args.ascii, TRUE)

\* if draw_plot with the test dropped
DisplayPlot_always ==
    /\ pc = "display"
    /\ IF Plot.ok
       THEN /\ output' = Append(output, Out("plot", Plot.val))
            /\ pc' = "print"
            /\ UNCHANGED failure
       ELSE /\ Abort(Plot.err)
            /\ UNCHANGED output
    /\ UNCHANGED <<args, term, width, alpha, opened, summaries, t_test,
                   lrVars, rdVars>>

\* if draw_plot { println!("{}\n", plot) }
DisplayPlot ==
    /\ pc = "display"
    /\ args.plot
    /\ IF Plot.ok
       THEN /\ output' = Append(output, Out("plot", Plot.val))
            /\ pc' = "print"
            /\ UNCHANGED failure
       ELSE /\ Abort(Plot.err)
            /\ UNCHANGED output
    /\ UNCHANGED <<args, term, width, alpha, opened, summaries, t_test,
                   lrVars, rdVars>>

\* draw_plot is false
SkipPlot ==
    /\ pc = "display"
    /\ ~args.plot
    /\ pc' = "print"
    /\ UNCHANGED <<args, term, width, alpha, opened, summaries, t_test,
                   output, failure, lrVars, rdVars>>

IsSummary(o) == o.kind = "summary"
IsPlot(o) == o.kind = "plot"
IsTTest(o) == o.kind = "t_test"

\* the number of summaries printed so far
Printed == Len(SelectSeq(output, IsSummary))

\* print_summary of the next summary, with the println!() around it:
\* after each summary in t_test_files, before each but the first in the
\* arm for three or more files
PrintSummary ==
    /\ pc = "print"
    /\ Printed < Len(summaries)
    /\ LET i == Printed + 1
           rec == Out("summary", summaries[i])
           two == ~args.stdin /\ args.nfiles = 2
           many == ~args.stdin /\ args.nfiles > 2
       IN /\ output' = IF two THEN output \o <<rec, Blank>>
                       ELSE IF many /\ i > 1 THEN output \o <<Blank, rec>>
                       ELSE Append(output, rec)
          /\ pc' = IF i < Len(summaries) THEN "print"
                   ELSE IF two THEN "print_t_test"
                   ELSE "done"
    /\ UNCHANGED <<args, term, width, alpha, opened, summaries, t_test,
                   failure, lrVars, rdVars>>

\* print_t_test(&t_test)
PrintTTest ==
    /\ pc = "print_t_test"
    /\ output' = Append(output, Out("t_test", t_test))
    /\ pc' = "done"
    /\ UNCHANGED <<args, term, width, alpha, opened, summaries, t_test,
                   failure, lrVars, rdVars>>

NextMain ==
    \/ GetMatches
    \/ SummarizeStdin
    \/ ParseAlpha
    \/ SummarizeFile
    \/ WelchTTest
    \/ DisplayPlot
    \/ SkipPlot
    \/ PrintSummary
    \/ PrintTTest

SpecMain == InitMain /\ [][NextMain]_vars

(***************************************************************************)
(* Properties of a run of main.                                            *)
(***************************************************************************)
Emitting == pc \in {"print", "print_t_test", "done"}
TwoFiles == ~args.stdin /\ args.nfiles = 2
HasTTest == \E i \in 1..Len(output) : IsTTest(output[i])

\* the input is missing, fails to read or parse, or yields an empty sample
InputFails(o) ==
    \/ ~o.content.exists
    \/ ~read_data(o.content.lines, args.lax).ok
    \/ read_data(o.content.lines, args.lax).val = <<>>

\* the Summary of an input that does not fail
SummaryOf(o) == Summary_new(read_data(o.content.lines, args.lax).val).val

\* C3 as stated: the six accepted strings map to six distinct levels and no
\* other string is accepted; in every run, another alpha string is an error
\* and no result is produced.
C3_AnyRun ==
    /\ \A a \in AlphaArgs : parse_alpha(a).ok <=> a \in AcceptedAlpha
    /\ \A a, b \in AcceptedAlpha :
          a # b => parse_alpha(a).val # parse_alpha(b).val
    /\ (AlphaArg \notin AcceptedAlpha) => (output = <<>> /\ ~Emitting)

\* C3 as amended: the six accepted strings ".001", ".005", ".01", ".025",
\* ".05", ".1" map to six distinct levels and no other string is accepted;
\* in every run without --stdin, another alpha string aborts the run at
\* parse_alpha, before any input is opened and with no output.  (With
\* --stdin the alpha string is never parsed.)
C3_RunWithoutStdin ==
    /\ \A a \in AlphaArgs : parse_alpha(a).ok <=> a \in AcceptedAlpha
    /\ \A a, b \in AcceptedAlpha :
          a # b => parse_alpha(a).val # parse_alpha(b).val
    /\ alpha.some
          => /\ AlphaArg \in AcceptedAlpha
             /\ alpha.v = parse_alpha(AlphaArg).val
    /\ (~args.stdin /\ AlphaArg \notin AcceptedAlpha)
          => /\ output = <<>> /\ opened = <<>> /\ ~alpha.some
             /\ pc \in {"start", "matched", "aborted"}
             /\ (pc = "aborted" /\ args.nfiles > 0)
                   => failure = Some("panic at parse_alpha")

C3_Witness ==
    /\ ~args.stdin /\ args.alpha = Some("0.05") /\ args.nfiles = 2
    /\ pc = "aborted" /\ failure = Some("panic at parse_alpha")

C5_PlotFirst ==
    /\ \A i \in 1..Len(output) : IsPlot(output[i]) => (i = 1 /\ args.plot)
    /\ (args.plot /\ output # <<>>) => IsPlot(output[1])
    /\ Printed <= Len(summaries)
    /\ SelectSeq(output, IsSummary)
          = [i \in 1..Printed |-> Out("summary", summaries[i])]
    /\ \A i \in 1..Len(summaries) :
          /\ opened[i].idx = (IF args.stdin THEN 0 ELSE i)
          /\ summaries[i] = SummaryOf(opened[i])
    /\ \A i \in 1..Len(output) :
          IsTTest(output[i]) => (i = Len(output) /\ TwoFiles /\ pc = "done")
    /\ (pc = "done" /\ TwoFiles) => IsTTest(output[Len(output)])

C5_Witness ==
    /\ pc = "done" /\ args.plot /\ TwoFiles
    /\ IsPlot(output[1]) /\ IsTTest(output[Len(output)])
    /\ summaries[1] # summaries[2]

\* C6: no partial output.  Output is emitted only after every input of the
\* run has been summarized; an input that is empty or fails to read or
\* parse aborts the run with nothing emitted.
C6_NoPartialOutput ==
    /\ output # <<>>
          => /\ Len(summaries) = NInputs /\ Len(opened) = NInputs
             /\ \A i \in 1..Len(opened) : ~InputFails(opened[i])
    /\ (\E i \in 1..Len(opened) : InputFails(opened[i]))
          => pc = "aborted" /\ output = <<>> /\ failure.some
    /\ pc = "aborted" => output = <<>>

\* the second of three files is empty after the first was summarized
C6_Witness ==
    /\ pc = "aborted" /\ ~args.stdin /\ args.nfiles = 3
    /\ Len(opened) = 2 /\ Len(summaries) = 1
    /\ ~InputFails(opened[1]) /\ InputFails(opened[2])
    /\ failure = Some("EmptySample")

\* C10: the mode depends on the stdin flag and the number of files only.
\* Every input is summarized before anything is emitted; a t-test is
\* computed and printed iff --stdin is absent and there are exactly two
\* files, file 1 as sample A and file 2 as sample B; with --stdin neither
\* the files nor alpha are read; otherwise one summary is printed per
\* file and no t-test.
C10_Modes ==
    /\ output # <<>> => Len(summaries) = NInputs
    /\ t_test # NoValue
          => /\ TwoFiles
             /\ t_test = welch_t_test(SummaryOf(opened[1]),
                                      SummaryOf(opened[2]),
                                      parse_alpha(AlphaArg).val)
             /\ opened[1].idx = 1 /\ opened[2].idx = 2
    /\ (TwoFiles /\ pc \in {"display", "print", "print_t_test", "done"})
          => t_test # NoValue
    /\ HasTTest => TwoFiles
    /\ pc = "done"
          => /\ HasTTest <=> TwoFiles
             /\ Printed = NInputs
             /\ TwoFiles => output[Len(output)] = Out("t_test", t_test)
    /\ args.stdin
          => /\ ~alpha.some
             /\ Len(opened) <= 1
             /\ \A i \in 1..Len(opened) : opened[i].src = "stdin"
    /\ ~args.stdin
          => \A i \in 1..Len(opened) :
                opened[i].src = "file" /\ opened[i].idx = i

C10_Witness ==
    /\ pc = "done" /\ TwoFiles /\ ~args.plot
    /\ output[Len(output)] = Out("t_test", t_test)
    /\ t_test.a # t_test.b

====
